---- MODULE Spec2Model ----
(***************************************************************************)
(* Magic Mover lifecycle: the state machine, the weight-capacity admission *)
(* control and the activity log of hasibrahim/Magic-Transporter, as the    *)
(* service (magicMover.service.ts) and the repository                      *)
(* (MagicMover.repository.ts) implement them on top of Mongoose.           *)
(*                                                                         *)
(* Spec     : requests are handled one at a time (each handler is one      *)
(*            atomic action).                                              *)
(* SpecConc : requests interleave at the handlers' await points (service   *)
(*            read, repository read, save, log append, response).          *)
(***************************************************************************)
EXTENDS Integers, Sequences, FiniteSets, TLC

\* ------------------------------------------------------------------ bounds
MaxMovers == 2      \* movers that can be created
MaxItems == 2       \* items that can be created; ids are 1..MaxItems
MaxLog == 4         \* activity-log entries (successful transitions) in a run
MaxProcs == 2       \* requests in flight at once (SpecConc)
MaxBoardLog == 5    \* activity-log entries in a leaderboard run (SpecBoard)
MaxMissions == 1    \* missions a mover ends unlogged (SpecLogFail)

\* Item weights and weight limits drawn by the creation requests.  Weights
\* are whole units: sums of them are exact, as the claims take them to be.
ItemWeights == {1, 2}
ItemIds == 1..MaxItems
MoverIds == 1..MaxMovers
Procs == 1..MaxProcs

\* --------------------------------------------------------------- enums
RESTING == "resting"
LOADING == "loading"
ON_MISSION == "on-mission"
MagicMoverState == {RESTING, LOADING, ON_MISSION}

ActLOADING == "loading"
ActUNLOADING == "unloading"
ActMISSION_STARTED == "mission_started"
ActMISSION_ENDED == "mission_ended"
ActivityType == {ActLOADING, ActUNLOADING, ActMISSION_STARTED, ActMISSION_ENDED}

\* the four mutating operations of MagicMoverService
MutatingOps == {"loadItems", "startMission", "endMission", "unloadItems"}

\* ------------------------------------------------------- helper operators
Range(s) == {s[i] : i \in 1..Len(s)}

RECURSIVE SumWeights(_, _)
\* items.reduce((sum, item) => sum + item.weight, 0) over a list of item ids
SumWeights(reg, ids) ==
    IF ids = <<>> THEN 0
    ELSE reg[Head(ids)].weight + SumWeights(reg, Tail(ids))

RECURSIVE SetSum(_, _)
\* the same reduce over the set of documents a query returns
SetSum(reg, S) ==
    IF S = {} THEN 0
    ELSE LET i == CHOOSE j \in S : TRUE
         IN reg[i].weight + SetSum(reg, S \ {i})

RECURSIVE Filter(_, _)
\* itemIds.filter(id => id \in keep), order kept
Filter(ids, keep) ==
    IF ids = <<>> THEN <<>>
    ELSE IF Head(ids) \in keep THEN <<Head(ids)>> \o Filter(Tail(ids), keep)
         ELSE Filter(Tail(ids), keep)

NoDuplicates(s) == \A i, j \in 1..Len(s) : i # j => s[i] # s[j]

\* ------------------------------------------------------------ errors
\* An error is the message the code throws, kept as its kind and its
\* interpolated parts.
NoError == [kind |-> "none", from |-> "", to |-> "", action |-> "", ids |-> <<>>]
Err(k) == [NoError EXCEPT !.kind = k]
MoverNotFound == Err("Magic Mover not found")
MustBeOnMission == Err("Magic Mover must be on mission to end a mission")
ItemsNotFound(missing) == [Err("Items not found") EXCEPT !.ids = missing]
DuplicateItems(dups) == [Err("Duplicate items detected") EXCEPT !.ids = dups]
WeightLimitExceeded == Err("Weight limit exceeded")
ConcurrentModification == Err("Concurrent modification detected")
\* what activityLog.save() rejects with when the store refuses the insert
LogAppendFailed == Err("ActivityLog insert failed")
InvalidTransition(f, t, a) ==
    [Err("Invalid state transition") EXCEPT !.from = f, !.to = t, !.action = a]

\* ----------------------------------------------------- state machine
\* mutant: a row that lets a resting mover start a mission
TRANSITIONS_withShortcut ==
    { [from |-> RESTING,    to |-> LOADING,    action |-> "load"],
      [from |-> LOADING,    to |-> LOADING,    action |-> "load"],
      [from |-> LOADING,    to |-> ON_MISSION, action |-> "start_mission"],
      [from |-> RESTING,    to |-> ON_MISSION, action |-> "start_mission"],
      [from |-> LOADING,    to |-> RESTING,    action |-> "unload"],
      [from |-> ON_MISSION, to |-> RESTING,    action |-> "end_mission"] }

\* mutant: a row that lets a mover on a mission take more cargo
TRANSITIONS_loadOnMission ==
    { [from |-> RESTING,    to |-> LOADING,    action |-> "load"],
      [from |-> LOADING,    to |-> LOADING,    action |-> "load"],
      [from |-> ON_MISSION, to |-> LOADING,    action |-> "load"],
      [from |-> LOADING,    to |-> ON_MISSION, action |-> "start_mission"],
      [from |-> LOADING,    to |-> RESTING,    action |-> "unload"],
      [from |-> ON_MISSION, to |-> RESTING,    action |-> "end_mission"] }

TRANSITIONS ==
    { [from |-> RESTING,    to |-> LOADING,    action |-> "load"],
      [from |-> LOADING,    to |-> LOADING,    action |-> "load"],
      [from |-> LOADING,    to |-> ON_MISSION, action |-> "start_mission"],
      [from |-> LOADING,    to |-> RESTING,    action |-> "unload"],
      [from |-> ON_MISSION, to |-> RESTING,    action |-> "end_mission"] }

\* mutant: the action is not compared
canTransition_ignoresAction(currentState, targetState, action) ==
    \E t \in TRANSITIONS :
        t.from = currentState /\ t.to = targetState

canTransition(currentState, targetState, action) ==
    \E t \in TRANSITIONS :
        t.from = currentState /\ t.to = targetState /\ t.action = action

\* the error validateTransition throws, NoError when it returns
validateTransition(currentState, targetState, action) ==
    IF ~canTransition(currentState, targetState, action)
    THEN InvalidTransition(currentState, targetState, action)
    ELSE NoError

\* ------------------------------------------------------- documents
\* new MagicMoverModel(data): the schema defaults fill what the request
\* leaves out
NoName == "(none)"
NewMover(data) ==
    [ name              |-> IF "name" \in DOMAIN data THEN data.name ELSE NoName,
      weightLimit       |-> data.weightLimit,
      currentWeight     |-> IF "currentWeight" \in DOMAIN data
                            THEN data.currentWeight ELSE 0,
      state             |-> IF "state" \in DOMAIN data THEN data.state ELSE RESTING,
      items             |-> IF "items" \in DOMAIN data THEN data.items ELSE <<>>,
      completedMissions |-> IF "completedMissions" \in DOMAIN data
                            THEN data.completedMissions ELSE 0 ]

\* mutant: the check forgets what is already aboard
validateWeightLimit_ignoresCurrent(mover, additionalWeight) ==
    additionalWeight <= mover.weightLimit

\* mutant: the check forgets to add what is coming aboard
validateWeightLimit_ignoresAdded(mover, additionalWeight) ==
    mover.currentWeight <= mover.weightLimit

\* mutant: a load that fills the mover exactly is refused (< for <=)
validateWeightLimit_strict(mover, additionalWeight) ==
    mover.currentWeight + additionalWeight < mover.weightLimit

validateWeightLimit(mover, additionalWeight) ==
    LET totalWeight == mover.currentWeight + additionalWeight
    IN totalWeight <= mover.weightLimit


\* Mongoose save() of a document read as orig and changed in memory to doc:
\* one update that $sets the paths whose value changed, $pushes what
\* items.push() added, and carries no version condition (versionKey: false
\* in the schema), so it applies to whatever the collection holds by then.
save(stored, orig, doc, itemsOp, pushed) ==
    [ stored EXCEPT
        !.state = IF doc.state # orig.state THEN doc.state ELSE @,
        !.currentWeight =
            IF doc.currentWeight # orig.currentWeight THEN doc.currentWeight ELSE @,
        !.completedMissions =
            IF doc.completedMissions # orig.completedMissions
            THEN doc.completedMissions ELSE @,
        !.items = CASE itemsOp = "push" -> @ \o pushed
                    [] itemsOp = "set" /\ doc.items # orig.items -> doc.items
                    [] OTHER -> @ ]

\* save() throws VersionError only when the schema keeps a version key
VersionError(stored, orig) == FALSE

\* ------------------------------------------------------ item registry
\* MagicItemRepository.findByIds: the stored items whose _id is $in ids
findByIds(reg, ids) == Range(ids) \cap (1..Len(reg))

\* ------------------------------------------------- repository operations
\* Each takes the document findById returned and gives the error thrown
\* (NoError when it reaches save) and the document as changed in memory.
Unchanged(magicMover, e) ==
    [error |-> e, doc |-> magicMover, itemsOp |-> "none", pushed |-> <<>>]

\* mutant: currentWeight = totalWeight instead of += totalWeight
Repository_loadItems_overwritesWeight(magicMover, itemIds, totalWeight) ==
    LET v == validateTransition(magicMover.state, LOADING, "load")
        duplicates == Filter(itemIds, Range(magicMover.items))
    IN  IF v # NoError THEN Unchanged(magicMover, v)
        ELSE IF duplicates # <<>> THEN Unchanged(magicMover, DuplicateItems(duplicates))
        ELSE IF ~validateWeightLimit(magicMover, totalWeight)
             THEN Unchanged(magicMover, WeightLimitExceeded)
        ELSE [ error   |-> NoError,
               doc     |-> [magicMover EXCEPT
                              !.state = LOADING,
                              !.items = @ \o itemIds,
                              !.currentWeight = totalWeight],
               itemsOp |-> "push",
               pushed  |-> itemIds ]

\* mutant: no check for ids already aboard
Repository_loadItems_noDuplicateCheck(magicMover, itemIds, totalWeight) ==
    LET v == validateTransition(magicMover.state, LOADING, "load")
    IN  IF v # NoError THEN Unchanged(magicMover, v)
        ELSE IF ~validateWeightLimit(magicMover, totalWeight)
             THEN Unchanged(magicMover, WeightLimitExceeded)
        ELSE [ error   |-> NoError,
               doc     |-> [magicMover EXCEPT
                              !.state = LOADING,
                              !.items = @ \o itemIds,
                              !.currentWeight = @ + totalWeight],
               itemsOp |-> "push",
               pushed  |-> itemIds ]

\* mutant: the new ids go in front of the cargo (unshift for push)
Repository_loadItems_prepends(magicMover, itemIds, totalWeight) ==
    LET v == validateTransition(magicMover.state, LOADING, "load")
        duplicates == Filter(itemIds, Range(magicMover.items))
    IN  IF v # NoError THEN Unchanged(magicMover, v)
        ELSE IF duplicates # <<>> THEN Unchanged(magicMover, DuplicateItems(duplicates))
        ELSE IF ~validateWeightLimit(magicMover, totalWeight)
             THEN Unchanged(magicMover, WeightLimitExceeded)
        ELSE [ error   |-> NoError,
               doc     |-> [magicMover EXCEPT
                              !.state = LOADING,
                              !.items = itemIds \o @,
                              !.currentWeight = @ + totalWeight],
               itemsOp |-> "set",
               pushed  |-> <<>> ]

Repository_loadItems(magicMover, itemIds, totalWeight) ==
    LET v == validateTransition(magicMover.state, LOADING, "load")
        duplicates == Filter(itemIds, Range(magicMover.items))
    IN  IF v # NoError THEN Unchanged(magicMover, v)
        ELSE IF duplicates # <<>> THEN Unchanged(magicMover, DuplicateItems(duplicates))
        ELSE IF ~validateWeightLimit(magicMover, totalWeight)
             THEN Unchanged(magicMover, WeightLimitExceeded)
        ELSE [ error   |-> NoError,
               doc     |-> [magicMover EXCEPT
                              !.state = LOADING,
                              !.items = @ \o itemIds,
                              !.currentWeight = @ + totalWeight],
               itemsOp |-> "push",
               pushed  |-> itemIds ]

\* mutant: starting the mission also empties the mover
Repository_startMission_dropsCargo(magicMover) ==
    LET v == validateTransition(magicMover.state, ON_MISSION, "start_mission")
    IN  IF v # NoError THEN Unchanged(magicMover, v)
        ELSE [ error   |-> NoError,
               doc     |-> [magicMover EXCEPT !.state = ON_MISSION,
                                              !.items = <<>>,
                                              !.currentWeight = 0],
               itemsOp |-> "set",
               pushed  |-> <<>> ]

Repository_startMission(magicMover) ==
    LET v == validateTransition(magicMover.state, ON_MISSION, "start_mission")
    IN  IF v # NoError THEN Unchanged(magicMover, v)
        ELSE [ error   |-> NoError,
               doc     |-> [magicMover EXCEPT !.state = ON_MISSION],
               itemsOp |-> "none",
               pushed  |-> <<>> ]

\* mutant: the weight aboard is not zeroed when the mission ends
Repository_endMission_keepsWeight(magicMover) ==
    LET v == validateTransition(magicMover.state, RESTING, "end_mission")
    IN  IF v # NoError THEN Unchanged(magicMover, v)
        ELSE [ error   |-> NoError,
               doc     |-> [magicMover EXCEPT
                              !.items = <<>>,
                              !.state = RESTING,
                              !.completedMissions = @ + 1],
               itemsOp |-> "set",
               pushed  |-> <<>> ]

\* mutant: the mission counter is incremented twice
Repository_endMission_countsTwice(magicMover) ==
    LET v == validateTransition(magicMover.state, RESTING, "end_mission")
    IN  IF v # NoError THEN Unchanged(magicMover, v)
        ELSE [ error   |-> NoError,
               doc     |-> [magicMover EXCEPT
                              !.items = <<>>,
                              !.currentWeight = 0,
                              !.state = RESTING,
                              !.completedMissions = @ + 2],
               itemsOp |-> "set",
               pushed  |-> <<>> ]

\* mutant: the mission counter is not incremented
Repository_endMission_noIncrement(magicMover) ==
    LET v == validateTransition(magicMover.state, RESTING, "end_mission")
    IN  IF v # NoError THEN Unchanged(magicMover, v)
        ELSE [ error   |-> NoError,
               doc     |-> [magicMover EXCEPT
                              !.items = <<>>,
                              !.currentWeight = 0,
                              !.state = RESTING],
               itemsOp |-> "set",
               pushed  |-> <<>> ]

\* mutant: unloading counts as a completed mission
Repository_unloadItems_countsMission(magicMover) ==
    LET v == validateTransition(magicMover.state, RESTING, "unload")
    IN  IF v # NoError THEN Unchanged(magicMover, v)
        ELSE [ error   |-> NoError,
               doc     |-> [magicMover EXCEPT
                              !.items = <<>>,
                              !.currentWeight = 0,
                              !.state = RESTING,
                              !.completedMissions = @ + 1],
               itemsOp |-> "set",
               pushed  |-> <<>> ]

Repository_endMission(magicMover) ==
    LET v == validateTransition(magicMover.state, RESTING, "end_mission")
    IN  IF v # NoError THEN Unchanged(magicMover, v)
        ELSE [ error   |-> NoError,
               doc     |-> [magicMover EXCEPT
                              !.items = <<>>,
                              !.currentWeight = 0,
                              !.state = RESTING,
                              !.completedMissions = @ + 1],
               itemsOp |-> "set",
               pushed  |-> <<>> ]

\* mutant: unloading puts the mover to rest with its cargo still aboard
Repository_unloadItems_keepsCargo(magicMover) ==
    LET v == validateTransition(magicMover.state, RESTING, "unload")
    IN  IF v # NoError THEN Unchanged(magicMover, v)
        ELSE [ error   |-> NoError,
               doc     |-> [magicMover EXCEPT !.state = RESTING],
               itemsOp |-> "none",
               pushed  |-> <<>> ]

Repository_unloadItems(magicMover) ==
    LET v == validateTransition(magicMover.state, RESTING, "unload")
    IN  IF v # NoError THEN Unchanged(magicMover, v)
        ELSE [ error   |-> NoError,
               doc     |-> [magicMover EXCEPT
                              !.items = <<>>,
                              !.currentWeight = 0,
                              !.state = RESTING],
               itemsOp |-> "set",
               pushed  |-> <<>> ]

\* ---------------------------------------------------- service helpers
\* verifyMoverExists: the error it throws for this id
verifyMoverExists(ms, id) ==
    IF id \in 1..Len(ms) THEN NoError ELSE MoverNotFound

\* mutant: compares the found ids with the requested ids as sets, so a
\* repeated id passes
validateItemsExist_bySet(reg, itemIds) ==
    LET items == findByIds(reg, itemIds)
    IN  IF items # Range(itemIds)
        THEN ItemsNotFound(Filter(itemIds, Range(itemIds) \ items))
        ELSE NoError

\* validateItemsExist: the query returns each stored item once, so a
\* request that repeats an id also fails the length comparison
validateItemsExist(reg, itemIds) ==
    LET items == findByIds(reg, itemIds)
    IN  IF Cardinality(items) # Len(itemIds)
        THEN ItemsNotFound(Filter(itemIds, Range(itemIds) \ items))
        ELSE NoError

calculateTotalWeight(reg, itemIds) == SetSum(reg, findByIds(reg, itemIds))

\* the activity-log document createActivityLog stores
Absent == -1
ActivityLog(moverId, activityType, previousState, newState, itemIds, itemCount, totalWeight, completedMissions) ==
    [ moverId |-> moverId, activityType |-> activityType,
      previousState |-> previousState, newState |-> newState,
      itemIds |-> itemIds, itemCount |-> itemCount,
      totalWeight |-> totalWeight, completedMissions |-> completedMissions ]

\* ---------------------------------------------------------- controller
\* the status the controller's catch block answers with
\* mutant: the catch blocks do not look for 'not found'
HttpStatus_noNotFound(op, error) ==
    LET k == error.kind
    IN  IF op \in {"createItem", "createMover"}
        THEN IF k = "none" THEN 201 ELSE 500
        ELSE IF k = "none" THEN 200
        ELSE IF k = "itemIds must be a non-empty array" THEN 400
        ELSE IF k = "Invalid state transition" THEN 400
        ELSE IF op = "loadItems"
                /\ k \in {"Weight limit exceeded", "Duplicate items detected"} THEN 400
        ELSE IF k = "Concurrent modification detected" THEN 409
        ELSE 500

HttpStatus(op, error) ==
    LET k == error.kind
    IN  IF op \in {"createItem", "createMover"}
        THEN IF k = "none" THEN 201 ELSE 500
        ELSE IF k = "none" THEN 200
        ELSE IF k = "itemIds must be a non-empty array" THEN 400
        ELSE IF k \in {"Magic Mover not found", "Items not found"} THEN 404
        ELSE IF k = "Invalid state transition" THEN 400
        ELSE IF op = "loadItems"
                /\ k \in {"Weight limit exceeded", "Duplicate items detected"} THEN 400
        ELSE IF k = "Concurrent modification detected" THEN 409
        ELSE 500

Response(op, id, itemIds, error) ==
    [ op |-> op, id |-> id, itemIds |-> itemIds, error |-> error,
      status |-> HttpStatus(op, error) ]


\* ---------------------------------------------------------------- state
VARIABLES
    itemReg,    \* MagicItem collection: item id i is itemReg[i]
    movers,     \* MagicMover collection: mover id m is movers[m]
    log,        \* ActivityLog collection, in insertion (createdAt) order
    procs,      \* the requests in flight, one per slot (SpecConc)
    response    \* the last response a controller sent

vars == <<itemReg, movers, log, procs, response>>

\* ------------------------------------------------------------- requests
\* POST /magic-movers bodies the tests send: weightLimit, optionally a name
CreateMoverRequests ==
    { [weightLimit |-> 2], [name |-> "Merlin", weightLimit |-> 3] }

\* POST /magic-movers/:id/load bodies: lists of ids, stored or not,
\* empty and with repeats included
RECURSIVE SeqsUpTo(_, _)
SeqsUpTo(S, n) ==
    IF n = 0 THEN {<<>>}
    ELSE LET shorter == SeqsUpTo(S, n - 1)
         IN shorter \cup {Append(q, x) : q \in shorter, x \in S}

LoadRequests == SeqsUpTo(ItemIds, MaxItems)

\* a request slot nobody uses
NoDoc == NewMover([weightLimit |-> 0])
Idle ==
    [ pc |-> "idle", op |-> "", id |-> 0, itemIds |-> <<>>, error |-> NoError,
      previousState |-> "", itemCount |-> 0, totalWeight |-> 0,
      orig |-> NoDoc, doc |-> NoDoc, itemsOp |-> "none" ]

\* nothing answered yet
NoResponse == Response("", 0, <<>>, NoError)

Init ==
    /\ itemReg = <<>>
    /\ movers = <<>>
    /\ log = <<>>
    /\ procs = [p \in Procs |-> Idle]
    /\ response = NoResponse

\* ------------------------------------------- handlers, one at a time
\* POST /magic-items (valid body): MagicItemService.create
createItem(weight) ==
    /\ Len(itemReg) < MaxItems
    /\ itemReg' = Append(itemReg, [name |-> "item", weight |-> weight])
    /\ response' = Response("createItem", Len(itemReg) + 1, <<>>, NoError)
    /\ UNCHANGED <<movers, log, procs>>

\* POST /magic-movers (valid body): MagicMoverService.create
createMover(data) ==
    /\ Len(movers) < MaxMovers
    /\ movers' = Append(movers, NewMover(data))
    /\ response' = Response("createMover", Len(movers) + 1, <<>>, NoError)
    /\ UNCHANGED <<itemReg, log, procs>>

\* a handler that throws: nothing is written, the controller answers
Fail(op, id, itemIds, error) ==
    /\ response' = Response(op, id, itemIds, error)
    /\ UNCHANGED <<itemReg, movers, log, procs>>

\* mutant: the handler saves and answers without appending the entry
Commit_noLog(op, id, itemIds, r, entry) ==
    /\ movers' = [movers EXCEPT ![id] = save(@, @, r.doc, r.itemsOp, r.pushed)]
    /\ response' = Response(op, id, itemIds, NoError)
    /\ UNCHANGED <<itemReg, log, procs>>

\* mutant: the handler rewrites the log to hold the new entry only
Commit_replacesLog(op, id, itemIds, r, entry) ==
    /\ movers' = [movers EXCEPT ![id] = save(@, @, r.doc, r.itemsOp, r.pushed)]
    /\ log' = <<entry>>
    /\ response' = Response(op, id, itemIds, NoError)
    /\ UNCHANGED <<itemReg, procs>>

\* a handler that saved r.doc over the document it read and logged entry
Commit(op, id, itemIds, r, entry) ==
    /\ movers' = [movers EXCEPT ![id] = save(@, @, r.doc, r.itemsOp, r.pushed)]
    /\ log' = Append(log, entry)
    /\ response' = Response(op, id, itemIds, NoError)
    /\ UNCHANGED <<itemReg, procs>>

\* mutant: the controller hands every list to the service, empty or not
loadItems_noEmptyCheck(id, itemIds) ==
    /\ Len(log) < MaxLog
    /\ IF verifyMoverExists(movers, id) # NoError
       THEN Fail("loadItems", id, itemIds, verifyMoverExists(movers, id))
       ELSE IF validateItemsExist(itemReg, itemIds) # NoError
       THEN Fail("loadItems", id, itemIds, validateItemsExist(itemReg, itemIds))
       ELSE LET totalWeight == calculateTotalWeight(itemReg, itemIds)
                previousState == movers[id].state
                r == Repository_loadItems(movers[id], itemIds, totalWeight)
            IN  IF r.error # NoError
                THEN Fail("loadItems", id, itemIds, r.error)
                ELSE Commit("loadItems", id, itemIds, r,
                            ActivityLog(id, ActLOADING, previousState, r.doc.state,
                                        itemIds, Len(itemIds), totalWeight, Absent))

\* MagicMoverController.load + MagicMoverService.loadItems
loadItems(id, itemIds) ==
    /\ Len(log) < MaxLog
    /\ IF itemIds = <<>>
       THEN Fail("loadItems", id, itemIds, Err("itemIds must be a non-empty array"))
       ELSE IF verifyMoverExists(movers, id) # NoError
       THEN Fail("loadItems", id, itemIds, verifyMoverExists(movers, id))
       ELSE IF validateItemsExist(itemReg, itemIds) # NoError
       THEN Fail("loadItems", id, itemIds, validateItemsExist(itemReg, itemIds))
       ELSE LET totalWeight == calculateTotalWeight(itemReg, itemIds)
                previousState == movers[id].state
                r == Repository_loadItems(movers[id], itemIds, totalWeight)
            IN  IF r.error # NoError
                THEN Fail("loadItems", id, itemIds, r.error)
                ELSE Commit("loadItems", id, itemIds, r,
                            ActivityLog(id, ActLOADING, previousState, r.doc.state,
                                        itemIds, Len(itemIds), totalWeight, Absent))

\* MagicMoverController.startMission + MagicMoverService.startMission
startMission(id) ==
    /\ Len(log) < MaxLog
    /\ IF verifyMoverExists(movers, id) # NoError
       THEN Fail("startMission", id, <<>>, verifyMoverExists(movers, id))
       ELSE LET previousState == movers[id].state
                r == Repository_startMission(movers[id])
            IN  IF r.error # NoError
                THEN Fail("startMission", id, <<>>, r.error)
                ELSE Commit("startMission", id, <<>>, r,
                            ActivityLog(id, ActMISSION_STARTED, previousState,
                                        r.doc.state, <<>>, Len(r.doc.items),
                                        r.doc.currentWeight, Absent))

\* MagicMoverController.endMission + MagicMoverService.endMission
\* mutant: the entry is built from the document endMission returned
endMission_logsAfterClear(id) ==
    /\ Len(log) < MaxLog
    /\ IF verifyMoverExists(movers, id) # NoError
       THEN Fail("endMission", id, <<>>, verifyMoverExists(movers, id))
       ELSE IF movers[id].state # ON_MISSION
       THEN Fail("endMission", id, <<>>, MustBeOnMission)
       ELSE LET previousState == movers[id].state
                r == Repository_endMission(movers[id])
            IN  IF r.error # NoError
                THEN Fail("endMission", id, <<>>, r.error)
                ELSE Commit("endMission", id, <<>>, r,
                            ActivityLog(id, ActMISSION_ENDED, previousState,
                                        r.doc.state, <<>>, Len(r.doc.items),
                                        r.doc.currentWeight,
                                        r.doc.completedMissions))

endMission(id) ==
    /\ Len(log) < MaxLog
    /\ IF verifyMoverExists(movers, id) # NoError
       THEN Fail("endMission", id, <<>>, verifyMoverExists(movers, id))
       ELSE IF movers[id].state # ON_MISSION
       THEN Fail("endMission", id, <<>>, MustBeOnMission)
       ELSE LET previousState == movers[id].state
                itemCount == Len(movers[id].items)
                totalWeight == movers[id].currentWeight
                r == Repository_endMission(movers[id])
            IN  IF r.error # NoError
                THEN Fail("endMission", id, <<>>, r.error)
                ELSE Commit("endMission", id, <<>>, r,
                            ActivityLog(id, ActMISSION_ENDED, previousState,
                                        r.doc.state, <<>>, itemCount, totalWeight,
                                        r.doc.completedMissions))

\* MagicMoverController.unload + MagicMoverService.unloadItems
unloadItems(id) ==
    /\ Len(log) < MaxLog
    /\ IF verifyMoverExists(movers, id) # NoError
       THEN Fail("unloadItems", id, <<>>, verifyMoverExists(movers, id))
       ELSE LET previousState == movers[id].state
                itemCount == Len(movers[id].items)
                totalWeight == movers[id].currentWeight
                r == Repository_unloadItems(movers[id])
            IN  IF r.error # NoError
                THEN Fail("unloadItems", id, <<>>, r.error)
                ELSE Commit("unloadItems", id, <<>>, r,
                            ActivityLog(id, ActUNLOADING, previousState,
                                        r.doc.state, <<>>, itemCount, totalWeight,
                                        Absent))

Next ==
    \/ \E w \in ItemWeights : createItem(w)
    \/ \E data \in CreateMoverRequests : createMover(data)
    \/ \E id \in MoverIds, itemIds \in LoadRequests : loadItems(id, itemIds)
    \/ \E id \in MoverIds : startMission(id)
    \/ \E id \in MoverIds : endMission(id)
    \/ \E id \in MoverIds : unloadItems(id)

Spec == Init /\ [][Next]_vars


\* ------------------------------- handlers interleaved at their awaits
\* A request in slot p runs: the service's findById (and, for a load, the
\* item queries), the repository's findById with its checks and in-memory
\* changes, save(), the log append, the response.  Each is one step; other
\* requests' steps may come between any two.

\* In SpecConc the collections start as four valid creation requests leave
\* them: two items, one mover.
InitConc ==
    /\ itemReg = << [name |-> "item", weight |-> 1], [name |-> "item", weight |-> 2] >>
    /\ movers = << NewMover([weightLimit |-> 3]) >>
    /\ log = <<>>
    /\ procs = [p \in Procs |-> Idle]
    /\ response = NoResponse

InFlight == {p \in Procs : procs[p].pc # "idle"}

\* A request takes the lowest free slot (slots are names, nothing more),
\* and only while the log can still hold its entry.
Admit(p) ==
    /\ procs[p].pc = "idle"
    /\ \A q \in Procs : q < p => procs[q].pc # "idle"
    /\ Len(log) + Cardinality(InFlight) < MaxLog

Thrown(op, id, itemIds, e) ==
    [Idle EXCEPT !.pc = "done", !.op = op, !.id = id, !.itemIds = itemIds,
                 !.error = e]

Started(op, id, itemIds, previousState, itemCount, totalWeight) ==
    [Idle EXCEPT !.pc = "repository", !.op = op, !.id = id, !.itemIds = itemIds,
                 !.previousState = previousState, !.itemCount = itemCount,
                 !.totalWeight = totalWeight]

\* MagicMoverService.loadItems up to the repository call (steps 1-4)
loadItems_service(p, id, itemIds) ==
    /\ Admit(p)
    /\ procs' = [procs EXCEPT ![p] =
         IF itemIds = <<>>
         THEN Thrown("loadItems", id, itemIds, Err("itemIds must be a non-empty array"))
         ELSE IF verifyMoverExists(movers, id) # NoError
         THEN Thrown("loadItems", id, itemIds, verifyMoverExists(movers, id))
         ELSE IF validateItemsExist(itemReg, itemIds) # NoError
         THEN Thrown("loadItems", id, itemIds, validateItemsExist(itemReg, itemIds))
         ELSE Started("loadItems", id, itemIds, movers[id].state, Len(itemIds),
                      calculateTotalWeight(itemReg, itemIds))]
    /\ UNCHANGED <<itemReg, movers, log, response>>

\* MagicMoverService.startMission up to the repository call (steps 1-2)
startMission_service(p, id) ==
    /\ Admit(p)
    /\ procs' = [procs EXCEPT ![p] =
         IF verifyMoverExists(movers, id) # NoError
         THEN Thrown("startMission", id, <<>>, verifyMoverExists(movers, id))
         ELSE Started("startMission", id, <<>>, movers[id].state, 0, 0)]
    /\ UNCHANGED <<itemReg, movers, log, response>>

\* MagicMoverService.endMission up to the repository call (steps 1-2)
endMission_service(p, id) ==
    /\ Admit(p)
    /\ procs' = [procs EXCEPT ![p] =
         IF verifyMoverExists(movers, id) # NoError
         THEN Thrown("endMission", id, <<>>, verifyMoverExists(movers, id))
         ELSE IF movers[id].state # ON_MISSION
         THEN Thrown("endMission", id, <<>>, MustBeOnMission)
         ELSE Started("endMission", id, <<>>, movers[id].state,
                      Len(movers[id].items), movers[id].currentWeight)]
    /\ UNCHANGED <<itemReg, movers, log, response>>

\* MagicMoverService.unloadItems up to the repository call (steps 1-2)
unloadItems_service(p, id) ==
    /\ Admit(p)
    /\ procs' = [procs EXCEPT ![p] =
         IF verifyMoverExists(movers, id) # NoError
         THEN Thrown("unloadItems", id, <<>>, verifyMoverExists(movers, id))
         ELSE Started("unloadItems", id, <<>>, movers[id].state,
                      Len(movers[id].items), movers[id].currentWeight)]
    /\ UNCHANGED <<itemReg, movers, log, response>>

\* the repository method of the request, on the document its findById reads
Repository(c, magicMover) ==
    CASE c.op = "loadItems" -> Repository_loadItems(magicMover, c.itemIds, c.totalWeight)
      [] c.op = "startMission" -> Repository_startMission(magicMover)
      [] c.op = "endMission" -> Repository_endMission(magicMover)
      [] c.op = "unloadItems" -> Repository_unloadItems(magicMover)

\* MagicMoverRepository.<op> from findById to just before save()
repository_read(p) ==
    /\ procs[p].pc = "repository"
    /\ LET c == procs[p]
           r == Repository(c, movers[c.id])
       IN  procs' = [procs EXCEPT ![p] =
             IF r.error # NoError
             THEN [c EXCEPT !.pc = "done", !.error = r.error]
             ELSE [c EXCEPT !.pc = "save", !.orig = movers[c.id], !.doc = r.doc,
                            !.itemsOp = r.itemsOp]]
    /\ UNCHANGED <<itemReg, movers, log, response>>

\* await magicMover.save() and its catch block
repository_save(p) ==
    /\ procs[p].pc = "save"
    /\ LET c == procs[p]
       IN  IF VersionError(movers[c.id], c.orig)
           THEN /\ procs' = [procs EXCEPT ![p] =
                      [c EXCEPT !.pc = "done", !.error = ConcurrentModification]]
                /\ UNCHANGED movers
           ELSE /\ movers' = [movers EXCEPT ![c.id] =
                      save(@, c.orig, c.doc, c.itemsOp,
                           IF c.itemsOp = "push" THEN c.itemIds ELSE <<>>)]
                /\ procs' = [procs EXCEPT ![p] = [c EXCEPT !.pc = "log"]]
    /\ UNCHANGED <<itemReg, log, response>>

\* the entry the service builds from what it captured and from the document
\* save() returned (the in-memory one)
LogEntry(c) ==
    CASE c.op = "loadItems" ->
           ActivityLog(c.id, ActLOADING, c.previousState, c.doc.state, c.itemIds,
                       Len(c.itemIds), c.totalWeight, Absent)
      [] c.op = "startMission" ->
           ActivityLog(c.id, ActMISSION_STARTED, c.previousState, c.doc.state,
                       <<>>, Len(c.doc.items), c.doc.currentWeight, Absent)
      [] c.op = "endMission" ->
           ActivityLog(c.id, ActMISSION_ENDED, c.previousState, c.doc.state,
                       <<>>, c.itemCount, c.totalWeight, c.doc.completedMissions)
      [] c.op = "unloadItems" ->
           ActivityLog(c.id, ActUNLOADING, c.previousState, c.doc.state,
                       <<>>, c.itemCount, c.totalWeight, Absent)

\* await this.createActivityLog(...)
createActivityLog(p) ==
    /\ procs[p].pc = "log"
    /\ log' = Append(log, LogEntry(procs[p]))
    /\ procs' = [procs EXCEPT ![p].pc = "done"]
    /\ UNCHANGED <<itemReg, movers, response>>

\* ResponseUtil.success / ResponseUtil.error in the controller: the outcome
\* leaves with the response and the slot is free again.  (While the slot
\* is "done" the outcome is in procs[p].error; response keeps the answers
\* of Spec only.)
respond(p) ==
    /\ procs[p].pc = "done"
    /\ procs' = [procs EXCEPT ![p] = Idle]
    /\ UNCHANGED <<itemReg, movers, log, response>>

NextConc ==
    \/ \E p \in Procs, id \in 1..Len(movers), itemIds \in LoadRequests :
          loadItems_service(p, id, itemIds)
    \/ \E p \in Procs, id \in 1..Len(movers) : startMission_service(p, id)
    \/ \E p \in Procs, id \in 1..Len(movers) : endMission_service(p, id)
    \/ \E p \in Procs, id \in 1..Len(movers) : unloadItems_service(p, id)
    \/ \E p \in Procs : repository_read(p)
    \/ \E p \in Procs : repository_save(p)
    \/ \E p \in Procs : createActivityLog(p)
    \/ \E p \in Procs : respond(p)

SpecConc == InitConc /\ [][NextConc]_vars


\* ------------------------------- handlers whose log append is refused
\* The store may refuse the insert of an activity-log document.  The
\* service awaits createActivityLog after the repository call returned and
\* has no catch around it: the exception leaves the service and the
\* controller answers 500; the mover was saved already.

\* a handler up to the return of its repository call: the error thrown, or
\* the document to save
Handled(op, id, itemIds) ==
    IF op = "loadItems" /\ itemIds = <<>>
    THEN Unchanged(NoDoc, Err("itemIds must be a non-empty array"))
    ELSE IF verifyMoverExists(movers, id) # NoError
    THEN Unchanged(NoDoc, verifyMoverExists(movers, id))
    ELSE IF op = "loadItems" /\ validateItemsExist(itemReg, itemIds) # NoError
    THEN Unchanged(movers[id], validateItemsExist(itemReg, itemIds))
    ELSE IF op = "endMission" /\ movers[id].state # ON_MISSION
    THEN Unchanged(movers[id], MustBeOnMission)
    ELSE Repository([op |-> op, itemIds |-> itemIds,
                     totalWeight |-> calculateTotalWeight(itemReg, itemIds)],
                    movers[id])

\* mutant: the handler undoes its write when the append fails
logAppendFails_rollsBack(op, id, itemIds) ==
    /\ Len(log) < MaxLog
    /\ LET r == Handled(op, id, itemIds)
       IN  /\ r.error = NoError
           /\ r.doc.completedMissions <= MaxMissions
           /\ response' = Response(op, id, itemIds, LogAppendFailed)
    /\ UNCHANGED <<itemReg, movers, log, procs>>

\* a handler whose repository call saved the mover and whose
\* createActivityLog call then throws
logAppendFails(op, id, itemIds) ==
    /\ Len(log) < MaxLog
    /\ LET r == Handled(op, id, itemIds)
       IN  /\ r.error = NoError
           /\ r.doc.completedMissions <= MaxMissions
           /\ movers' = [movers EXCEPT ![id] =
                            save(@, @, r.doc, r.itemsOp, r.pushed)]
           /\ response' = Response(op, id, itemIds, LogAppendFailed)
    /\ UNCHANGED <<itemReg, log, procs>>

NextLogFail ==
    \/ \E id \in 1..Len(movers), itemIds \in LoadRequests : loadItems(id, itemIds)
    \/ \E id \in 1..Len(movers) : startMission(id)
    \/ \E id \in 1..Len(movers) : endMission(id)
    \/ \E id \in 1..Len(movers) : unloadItems(id)
    \/ \E id \in 1..Len(movers), itemIds \in LoadRequests :
          logAppendFails("loadItems", id, itemIds)
    \/ \E id \in 1..Len(movers), op \in MutatingOps \ {"loadItems"} :
          logAppendFails(op, id, <<>>)

\* one-at-a-time handlers on two stored items and one stored mover, with a
\* store that may refuse log inserts
SpecLogFail == InitConc /\ [][NextLogFail]_vars


\* ------------------------------------ creation requests, validated
\* POST /magic-movers and POST /magic-items pass validationMiddleware(Dto)
\* before the controller; the model's save() then runs the schema's
\* setters and validators.  A body is a record of the properties sent.
\* An item name is a sequence of characters here, so that trim is computed.

RECURSIVE TrimStart(_)
TrimStart(str) ==
    IF str # <<>> /\ Head(str) = " " THEN TrimStart(Tail(str)) ELSE str

RECURSIVE TrimEnd(_)
TrimEnd(str) ==
    IF str # <<>> /\ str[Len(str)] = " "
    THEN TrimEnd(SubSeq(str, 1, Len(str) - 1)) ELSE str

\* the schema's trim: true setter
trim(str) == TrimEnd(TrimStart(str))

\* the bodies sent to POST /magic-movers
CreateMoverBodies ==
    { [weightLimit |-> 2],
      [name |-> "Merlin", weightLimit |-> 3],
      [name |-> "Merlin"],
      [weightLimit |-> 0],
      [weightLimit |-> -10],
      [name |-> "", weightLimit |-> 3],
      [weightLimit |-> 3, state |-> ON_MISSION],
      [weightLimit |-> 3, state |-> "flying"],
      [weightLimit |-> 3, currentWeight |-> 5],
      [weightLimit |-> 3, currentWeight |-> -1],
      [weightLimit |-> 3, items |-> <<1, 1>>],
      [weightLimit |-> 3, completedMissions |-> 3],
      [weightLimit |-> 3, completedMissions |-> -1] }

\* the bodies sent to POST /magic-items
CreateItemBodies ==
    { [name |-> <<"F">>, weight |-> 1],
      [name |-> <<" ", "F", " ">>, weight |-> 2],
      [name |-> <<>>, weight |-> 1],
      [name |-> <<" ", " ", " ">>, weight |-> 1],
      [weight |-> 1],
      [name |-> <<"F">>],
      [name |-> <<"F">>, weight |-> 0],
      [name |-> <<"F">>, weight |-> -5],
      [name |-> <<" ">>, weight |-> 0] }

\* the properties of body (in the listed order) that fail their check
Failing(props, failed) == Filter(props, failed)

\* mutant: weightLimit is checked with Min(0) instead of IsPositive
validateCreateMagicMoverDto_minZero(body) ==
    LET has(f) == f \in DOMAIN body
    IN  Failing(<<"name", "weightLimit", "currentWeight", "state", "items",
                  "completedMissions">>,
          {f \in {"name"} : has(f) /\ body.name = ""}
          \cup {f \in {"weightLimit"} : ~has(f) \/ (has(f) /\ ~(body[f] >= 0))}
          \cup {f \in {"currentWeight", "completedMissions"} :
                   has(f) /\ ~(body[f] >= 0)}
          \cup {f \in {"state"} : has(f) /\ body.state \notin MagicMoverState})

\* class-validator on CreateMagicMoverDto: the properties with a failed
\* constraint (IsOptional skips an absent property)
validateCreateMagicMoverDto(body) ==
    LET has(f) == f \in DOMAIN body
    IN  Failing(<<"name", "weightLimit", "currentWeight", "state", "items",
                  "completedMissions">>,
          {f \in {"name"} : has(f) /\ body.name = ""}
          \cup {f \in {"weightLimit"} : ~has(f) \/ (has(f) /\ ~(body[f] > 0))}
          \cup {f \in {"currentWeight", "completedMissions"} :
                   has(f) /\ ~(body[f] >= 0)}
          \cup {f \in {"state"} : has(f) /\ body.state \notin MagicMoverState})

\* class-validator on CreateMagicItemDto: IsNotEmpty fails for '' (and for
\* an absent value), IsPositive for a weight that is not > 0
validateCreateMagicItemDto(body) ==
    LET has(f) == f \in DOMAIN body
    IN  Failing(<<"name", "weight">>,
          {f \in {"name"} : ~has(f) \/ (has(f) /\ body.name = <<>>)}
          \cup {f \in {"weight"} : ~has(f) \/ (has(f) /\ ~(body[f] > 0))})

\* the answer of validationMiddleware to a body that fails validation
ValidationFailed(op, body, failed) ==
    [ op |-> op, id |-> 0, itemIds |-> <<>>, body |-> body,
      error |-> [Err("Validation failed") EXCEPT !.ids = failed],
      status |-> 400 ]

\* the answer of a create controller
Created(op, id, body, error) ==
    [ op |-> op, id |-> id, itemIds |-> <<>>, body |-> body, error |-> error,
      status |-> HttpStatus(op, error) ]

\* what MagicItemModel's save() rejects with when a schema validator fails
ItemValidationError == Err("MagicItem validation failed")

\* POST /magic-movers: validationMiddleware(CreateMagicMoverDto), then
\* MagicMoverController.create
postMagicMover(body) ==
    /\ Len(movers) < MaxMovers
    /\ IF validateCreateMagicMoverDto(body) # <<>>
       THEN /\ response' = ValidationFailed("createMover", body,
                                            validateCreateMagicMoverDto(body))
            /\ UNCHANGED movers
       ELSE /\ movers' = Append(movers, NewMover(body))
            /\ response' = Created("createMover", Len(movers) + 1, body, NoError)
    /\ UNCHANGED <<itemReg, log, procs>>

\* POST /magic-items: validationMiddleware(CreateMagicItemDto), then
\* MagicItemController.create; the schema trims the name and requires it
postMagicItem(body) ==
    /\ Len(itemReg) < MaxItems
    /\ IF validateCreateMagicItemDto(body) # <<>>
       THEN /\ response' = ValidationFailed("createItem", body,
                                            validateCreateMagicItemDto(body))
            /\ UNCHANGED itemReg
       ELSE IF trim(body.name) = <<>>
       THEN /\ response' = Created("createItem", 0, body, ItemValidationError)
            /\ UNCHANGED itemReg
       ELSE /\ itemReg' = Append(itemReg,
                                 [name |-> trim(body.name), weight |-> body.weight])
            /\ response' = Created("createItem", Len(itemReg) + 1, body, NoError)
    /\ UNCHANGED <<movers, log, procs>>

NextCreate ==
    \/ \E body \in CreateMoverBodies : postMagicMover(body)
    \/ \E body \in CreateItemBodies : postMagicItem(body)

\* the two creation routes on empty collections
SpecCreate == Init /\ [][NextCreate]_vars


\* ------------------------------------------------- the leaderboard
\* GET /magic-movers/most-missions-completed[?itemId=...] between mutating
\* requests handled one at a time.  An entry's createdAt is its position in
\* log: entries are inserted one at a time, each with a later timestamp.

\* positions of the LOADING entries whose details.itemIds holds itemId
loadingActivities(itemId) ==
    {i \in 1..Len(log) : /\ log[i].activityType = ActLOADING
                         /\ itemId \in Range(log[i].itemIds)}

RECURSIVE Unique(_)
\* [...new Set(list)]: first occurrences, in order
Unique(list) ==
    IF list = <<>> THEN <<>>
    ELSE LET rest == Unique(SubSeq(list, 1, Len(list) - 1))
             last == list[Len(list)]
         IN IF last \in Range(rest) THEN rest ELSE Append(rest, last)

\* the moverId of each entry of log, in order, for the positions in S
MoverIdsAt(S) ==
    LET RECURSIVE upTo(_)
        upTo(n) == IF n = 0 THEN <<>>
                   ELSE IF n \in S THEN Append(upTo(n - 1), log[n].moverId)
                   ELSE upTo(n - 1)
    IN upTo(Len(log))

\* the loop of getTopPerformers: one count per qualifying loading that has
\* some MISSION_ENDED entry of the mover created after it
missionCount(moverId, itemId) ==
    LET moverLoadings == {i \in loadingActivities(itemId) : log[i].moverId = moverId}
        missionEnded == {j \in 1..Len(log) :
                           /\ log[j].moverId = moverId
                           /\ log[j].activityType = ActMISSION_ENDED}
    IN Cardinality({i \in moverLoadings : \E j \in missionEnded : j > i})

RECURSIVE SortDescending(_, _)
\* Array.prototype.sort((a, b) => b.missionCount - a.missionCount): stable
SortDescending(list, itemId) ==
    IF list = <<>> THEN <<>>
    ELSE LET k == CHOOSE i \in 1..Len(list) :
                    /\ \A j \in 1..Len(list) :
                          missionCount(list[j], itemId) <= missionCount(list[i], itemId)
                    /\ \A j \in 1..(i - 1) :
                          missionCount(list[j], itemId) < missionCount(list[i], itemId)
         IN <<list[k]>> \o SortDescending(SubSeq(list, 1, k - 1)
                                            \o SubSeq(list, k + 1, Len(list)), itemId)

\* MagicMoverRepository.getTopPerformers(itemId): the movers (by id) in the
\* order returned
Repository_getTopPerformers(itemId) ==
    LET moverIds == Unique(MoverIdsAt(loadingActivities(itemId)))
        sorted == SortDescending(moverIds, itemId)
    IN Filter(sorted, 1..Len(movers))

\* mutant: find().sort({completedMissions: 1})
AllByCompletedMissions_ascending ==
    {order \in SeqsUpTo(1..Len(movers), Len(movers)) :
        /\ Len(order) = Len(movers)
        /\ NoDuplicates(order)
        /\ \A i, j \in 1..Len(order) :
              i < j => movers[order[i]].completedMissions
                         <= movers[order[j]].completedMissions}

\* MagicMoverModel.find().sort({completedMissions: -1}): every stored
\* mover, in an order the store picks among those sorted by the key
AllByCompletedMissions ==
    {order \in SeqsUpTo(1..Len(movers), Len(movers)) :
        /\ Len(order) = Len(movers)
        /\ NoDuplicates(order)
        /\ \A i, j \in 1..Len(order) :
              i < j => movers[order[i]].completedMissions
                         >= movers[order[j]].completedMissions}

\* the answer of MagicMoverController.getTopPerformers
TopPerformers(itemIds, data) ==
    [ op |-> "getTopPerformers", id |-> 0, itemIds |-> itemIds,
      error |-> NoError, status |-> 200, data |-> data ]

\* GET /magic-movers/most-missions-completed
getTopPerformers ==
    /\ \E order \in AllByCompletedMissions :
          response' = TopPerformers(<<>>, order)
    /\ UNCHANGED <<itemReg, movers, log, procs>>

\* GET /magic-movers/most-missions-completed?itemId=...
getTopPerformers_item(itemId) ==
    /\ response' = TopPerformers(<<itemId>>, Repository_getTopPerformers(itemId))
    /\ UNCHANGED <<itemReg, movers, log, procs>>

\* a mutating request, handled whole (controller, service, repository,
\* log append), while the log has room
request(op, id, itemIds) ==
    /\ Len(log) < MaxBoardLog
    /\ LET r == Handled(op, id, itemIds)
       IN  IF r.error # NoError
           THEN Fail(op, id, itemIds, r.error)
           ELSE Commit(op, id, itemIds, r,
                       LogEntry([op |-> op, id |-> id, itemIds |-> itemIds,
                                 previousState |-> movers[id].state,
                                 itemCount |-> IF op = "loadItems" THEN Len(itemIds)
                                               ELSE Len(movers[id].items),
                                 totalWeight |-> IF op = "loadItems"
                                                 THEN calculateTotalWeight(itemReg, itemIds)
                                                 ELSE movers[id].currentWeight,
                                 doc |-> r.doc]))

\* the collections after two items and two movers were created
InitBoard ==
    /\ itemReg = << [name |-> "item", weight |-> 1], [name |-> "item", weight |-> 2] >>
    /\ movers = << NewMover([weightLimit |-> 3]),
                   NewMover([name |-> "Merlin", weightLimit |-> 3]) >>
    /\ log = <<>>
    /\ procs = [p \in Procs |-> Idle]
    /\ response = NoResponse

NextBoard ==
    \/ \E id \in 1..Len(movers), itemIds \in LoadRequests :
          request("loadItems", id, itemIds)
    \/ \E id \in 1..Len(movers), op \in MutatingOps \ {"loadItems"} :
          request(op, id, <<>>)
    \/ getTopPerformers
    \/ \E itemId \in ItemIds : getTopPerformers_item(itemId)

SpecBoard == InitBoard /\ [][NextBoard]_vars

\* the collections after the first mover loaded item 1 and completed a
\* mission with it
InitBoardSecond ==
    /\ itemReg = << [name |-> "item", weight |-> 1], [name |-> "item", weight |-> 2] >>
    /\ movers = << [NewMover([weightLimit |-> 3]) EXCEPT !.completedMissions = 1],
                   NewMover([name |-> "Merlin", weightLimit |-> 3]) >>
    /\ log = << ActivityLog(1, ActLOADING, RESTING, LOADING, <<1>>, 1, 1, Absent),
                ActivityLog(1, ActMISSION_STARTED, LOADING, ON_MISSION, <<>>, 1, 1, Absent),
                ActivityLog(1, ActMISSION_ENDED, ON_MISSION, RESTING, <<>>, 1, 1, 1) >>
    /\ procs = [p \in Procs |-> Idle]
    /\ response = NoResponse

\* a mutating request while the log has room for the second mover's missions
requestSecond(op, id, itemIds) ==
    /\ Len(log) < MaxBoardLog + 4
    /\ LET r == Handled(op, id, itemIds)
       IN  IF r.error # NoError
           THEN Fail(op, id, itemIds, r.error)
           ELSE Commit(op, id, itemIds, r,
                       LogEntry([op |-> op, id |-> id, itemIds |-> itemIds,
                                 previousState |-> movers[id].state,
                                 itemCount |-> IF op = "loadItems" THEN Len(itemIds)
                                               ELSE Len(movers[id].items),
                                 totalWeight |-> IF op = "loadItems"
                                                 THEN calculateTotalWeight(itemReg, itemIds)
                                                 ELSE movers[id].currentWeight,
                                 doc |-> r.doc]))

\* the first mover stays at rest; the requests are the second mover's
NextBoardSecond ==
    \/ \E itemIds \in LoadRequests : requestSecond("loadItems", 2, itemIds)
    \/ \E op \in MutatingOps \ {"loadItems"} : requestSecond(op, 2, <<>>)
    \/ getTopPerformers
    \/ \E itemId \in ItemIds : getTopPerformers_item(itemId)

SpecBoardSecond == InitBoardSecond /\ [][NextBoardSecond]_vars

\* ------------------------------------ the state machine on its own
\* canTransition and validateTransition applied to any triple of strings,
\* the enum's values and others.
AnyStates == MagicMoverState \cup {"flying"}
AnyActions == {"load", "start_mission", "unload", "end_mission", "LOAD", "", "fly"}

\* one call of each on a triple; the outcome is kept in response
tryTransition(from, to, action) ==
    /\ response' = [ op |-> "validateTransition", from |-> from, to |-> to,
                     action |-> action,
                     can |-> canTransition(from, to, action),
                     error |-> validateTransition(from, to, action) ]
    /\ UNCHANGED <<itemReg, movers, log, procs>>

NextTransition ==
    \E from \in AnyStates, to \in AnyStates, action \in AnyActions :
        tryTransition(from, to, action)

SpecTransition == Init /\ [][NextTransition]_vars


\* =================================================================
\* Properties
\* =================================================================
Stored == 1..Len(movers)

\* C1: after every committed operation of a one-at-a-time run on movers
\* created RESTING and empty, currentWeight is the sum of the weights of the
\* items listed in items.
C1_WeightIsSumOfItems ==
    \A m \in Stored :
        movers[m].currentWeight = SumWeights(itemReg, movers[m].items)

\* C1 witness: a mover that took two loads in a row (LOADING -> LOADING) and
\* carries two items.
C1_Witness ==
    \E m \in Stored :
        /\ Len(movers[m].items) = 2
        /\ Len(log) >= 2
        /\ log[Len(log)].moverId = m /\ log[Len(log)].previousState = LOADING
        /\ log[Len(log)].activityType = ActLOADING

\* C2: in every state of a one-at-a-time run, currentWeight <= weightLimit.
C2_WeightWithinLimit ==
    \A m \in Stored : movers[m].currentWeight <= movers[m].weightLimit

\* C2 witness: a load was refused for capacity on a mover that is loaded
\* exactly to its limit.
C2_Witness ==
    /\ response.op = "loadItems"
    /\ response.error = WeightLimitExceeded
    /\ response.id \in Stored
    /\ movers[response.id].currentWeight = movers[response.id].weightLimit
    /\ movers[response.id].items # <<>>

C3_WitnessAboard ==
    /\ response.op = "loadItems"
    /\ response.id \in Stored
    /\ response.error.kind = "Duplicate items detected"
    /\ Range(response.error.ids) \subseteq Range(movers[response.id].items)


\* the five rows of the transition table, by handler
C9_Rows ==
    { <<RESTING, LOADING, "loadItems">>,
      <<LOADING, LOADING, "loadItems">>,
      <<LOADING, ON_MISSION, "startMission">>,
      <<LOADING, RESTING, "unloadItems">>,
      <<ON_MISSION, RESTING, "endMission">> }

\* C9: in a one-at-a-time run every change of a stored mover is the work of
\* a successful request on it that follows one of the five table rows, and
\* startMission on a RESTING mover fails with the invalid-transition error
\* (RESTING -> ON_MISSION) and changes nothing.
C9_OnlyTableTransitions ==
    [][ \A m \in Stored :
          /\ movers'[m] # movers[m] =>
                /\ response'.id = m
                /\ response'.status = 200
                /\ <<movers[m].state, movers'[m].state, response'.op>> \in C9_Rows
          /\ (movers[m].state = RESTING /\ startMission(m)) =>
                /\ response'.error =
                       InvalidTransition(RESTING, ON_MISSION, "start_mission")
                /\ response'.status = 400
                /\ UNCHANGED <<movers, log>> ]_vars

\* C9 witness: a RESTING mover has just refused startMission.
C9_Witness ==
    /\ response.op = "startMission"
    /\ response.id \in Stored
    /\ movers[response.id].state = RESTING
    /\ response.error = InvalidTransition(RESTING, ON_MISSION, "start_mission")

\* a load request of distinct stored items that fit the mover's limit
FittingLoad(m, itemIds) ==
    /\ itemIds # <<>>
    /\ NoDuplicates(itemIds)
    /\ Range(itemIds) \subseteq 1..Len(itemReg)
    /\ SumWeights(itemReg, itemIds) <= movers[m].weightLimit

\* C10: on a RESTING mover with empty cargo a load of stored items that fit
\* succeeds and gives LOADING; startMission then succeeds and gives
\* ON_MISSION; endMission then succeeds and gives RESTING with items empty,
\* currentWeight 0 and completedMissions one higher.
C10_FullCycle ==
    [][ \A m \in Stored :
          /\ \A itemIds \in LoadRequests :
                ( /\ movers[m].state = RESTING /\ movers[m].items = <<>>
                  /\ FittingLoad(m, itemIds)
                  /\ loadItems(m, itemIds) ) =>
                    /\ response'.status = 200
                    /\ movers'[m].state = LOADING
                    /\ movers'[m].items = itemIds
          /\ (movers[m].state = LOADING /\ startMission(m)) =>
                /\ response'.status = 200
                /\ movers'[m].state = ON_MISSION
                /\ movers'[m].items = movers[m].items
          /\ (movers[m].state = ON_MISSION /\ endMission(m)) =>
                /\ response'.status = 200
                /\ movers'[m].state = RESTING
                /\ movers'[m].items = <<>>
                /\ movers'[m].currentWeight = 0
                /\ movers'[m].completedMissions = movers[m].completedMissions + 1
      ]_vars

\* C10 witness: a mover has gone through load, start_mission, end_mission
\* and rests again with one mission completed.
C10_Witness ==
    /\ response.op = "endMission" /\ response.status = 200
    /\ response.id \in Stored
    /\ movers[response.id].state = RESTING
    /\ movers[response.id].items = <<>>
    /\ movers[response.id].completedMissions = 1
    /\ Len(log) >= 3
    /\ LET n == Len(log)
       IN  /\ \A i \in (n - 2)..n : log[i].moverId = response.id
           /\ log[n - 2].activityType = ActLOADING
           /\ log[n - 2].previousState = RESTING
           /\ log[n - 1].activityType = ActMISSION_STARTED
           /\ log[n - 1].newState = ON_MISSION
           /\ log[n].activityType = ActMISSION_ENDED
           /\ log[n].newState = RESTING

\* C11: endMission succeeds only on a mover whose state was ON_MISSION, and
\* a successful endMission leaves that mover with items empty, currentWeight
\* 0, state RESTING and completedMissions one more than before (name and
\* weightLimit as they were).
C11_EndMissionContract ==
    [][ \A m \in MoverIds :
          /\ (endMission(m) /\ response'.status = 200) =>
                /\ m \in Stored
                /\ movers[m].state = ON_MISSION
                /\ movers'[m] = [movers[m] EXCEPT
                                   !.items = <<>>,
                                   !.currentWeight = 0,
                                   !.state = RESTING,
                                   !.completedMissions = @ + 1]
          /\ (m \in Stored /\ movers[m].state # ON_MISSION /\ endMission(m)) =>
                /\ response'.status # 200
                /\ UNCHANGED <<movers, log>> ]_vars

\* C11 witness: a mover that carried two items has just ended its mission:
\* the entry records the two items, the mover is RESTING and empty.
C11_Witness ==
    /\ response.op = "endMission" /\ response.status = 200
    /\ log # <<>>
    /\ log[Len(log)].activityType = ActMISSION_ENDED
    /\ log[Len(log)].moverId = response.id
    /\ log[Len(log)].itemCount = 2
    /\ movers[response.id].state = RESTING
    /\ movers[response.id].items = <<>>
    /\ movers[response.id].currentWeight = 0
    /\ movers[response.id].completedMissions = 1

\* C12: unloadItems succeeds only on a mover whose state was LOADING; from
\* RESTING and from ON_MISSION it fails with the invalid-transition error
\* and changes nothing; a successful unloadItems leaves items empty,
\* currentWeight 0, state RESTING and completedMissions as it was.
C12_UnloadContract ==
    [][ \A m \in Stored :
          /\ (unloadItems(m) /\ response'.status = 200) =>
                /\ movers[m].state = LOADING
                /\ movers'[m] = [movers[m] EXCEPT
                                   !.items = <<>>,
                                   !.currentWeight = 0,
                                   !.state = RESTING]
          /\ (movers[m].state \in {RESTING, ON_MISSION} /\ unloadItems(m)) =>
                /\ response'.error =
                       InvalidTransition(movers[m].state, RESTING, "unload")
                /\ response'.status = 400
                /\ UNCHANGED <<movers, log>> ]_vars

\* C12 witness: a LOADING mover with cargo has just unloaded: the entry
\* records the cargo it had, the mover is RESTING and empty.
C12_Witness ==
    /\ response.op = "unloadItems" /\ response.status = 200
    /\ log # <<>>
    /\ log[Len(log)].activityType = ActUNLOADING
    /\ log[Len(log)].moverId = response.id
    /\ log[Len(log)].previousState = LOADING
    /\ log[Len(log)].itemCount >= 1
    /\ movers[response.id].state = RESTING
    /\ movers[response.id].items = <<>>
    /\ movers[response.id].currentWeight = 0

\* C12 second witness: an ON_MISSION mover has just refused to unload.
C12_WitnessOnMission ==
    /\ response.op = "unloadItems"
    /\ response.id \in Stored
    /\ movers[response.id].state = ON_MISSION
    /\ response.error = InvalidTransition(ON_MISSION, RESTING, "unload")

\* a load request as the claims about single requests take it: a
\* non-empty list of ids of stored items, none repeated
ExistingItems(itemIds) ==
    /\ itemIds # <<>>
    /\ NoDuplicates(itemIds)
    /\ Range(itemIds) \subseteq 1..Len(itemReg)

\* the requested ids that are already in the mover's items, in request order
Aboard(m, itemIds) == Filter(itemIds, Range(movers[m].items))

Overweight(m, itemIds) ==
    movers[m].currentWeight + SumWeights(itemReg, itemIds) > movers[m].weightLimit

\* C14 (as claimed): in every mover state a load request whose items'
\* combined weight plus currentWeight exceeds weightLimit fails with the
\* weight-limit error and leaves the mover as it was.
C14_OverweightRejectedInEveryState ==
    [][ \A m \in Stored : \A itemIds \in LoadRequests :
          ( /\ ExistingItems(itemIds)
            /\ Overweight(m, itemIds)
            /\ loadItems(m, itemIds) ) =>
              /\ response'.error = WeightLimitExceeded
              /\ UNCHANGED movers ]_vars

\* C14 (amended): a load request of existing items whose combined weight
\* plus currentWeight exceeds weightLimit always fails and leaves the mover
\* and the log as they were; the error is the weight-limit error (HTTP 400)
\* when the mover is RESTING or LOADING and none of the ids is aboard, the
\* invalid-transition error when it is ON_MISSION, and the duplicate-items
\* error when it is not ON_MISSION and an id is aboard.
C14_OverweightRejected ==
    [][ \A m \in Stored : \A itemIds \in LoadRequests :
          ( /\ ExistingItems(itemIds)
            /\ Overweight(m, itemIds)
            /\ loadItems(m, itemIds) ) =>
              /\ UNCHANGED <<movers, log>>
              /\ response'.status = 400
              /\ response'.error =
                    IF movers[m].state = ON_MISSION
                    THEN InvalidTransition(ON_MISSION, LOADING, "load")
                    ELSE IF Aboard(m, itemIds) # <<>>
                    THEN DuplicateItems(Aboard(m, itemIds))
                    ELSE WeightLimitExceeded ]_vars

\* C14 witness: a RESTING mover with nothing aboard has refused a request
\* of existing items heavier than its limit and is still RESTING and empty.
C14_Witness ==
    /\ response.op = "loadItems"
    /\ response.error = WeightLimitExceeded
    /\ response.status = 400
    /\ response.id \in Stored
    /\ ExistingItems(response.itemIds)
    /\ movers[response.id].state = RESTING
    /\ movers[response.id].items = <<>>
    /\ movers[response.id].currentWeight = 0
    /\ SumWeights(itemReg, response.itemIds) > movers[response.id].weightLimit

\* C15: a load request of existing items on an ON_MISSION mover fails with
\* the invalid-transition error (on-mission -> loading, load; HTTP 400) and
\* changes neither the mover nor the log.
C15_NoLoadOnMission ==
    [][ \A m \in Stored : \A itemIds \in LoadRequests :
          ( /\ movers[m].state = ON_MISSION
            /\ ExistingItems(itemIds)
            /\ loadItems(m, itemIds) ) =>
              /\ response'.error = InvalidTransition(ON_MISSION, LOADING, "load")
              /\ response'.status = 400
              /\ UNCHANGED <<movers, log>> ]_vars

\* C15 witness: an ON_MISSION mover has refused a load of a stored item it
\* does not carry and that would fit.
C15_Witness ==
    /\ response.op = "loadItems"
    /\ response.id \in Stored
    /\ movers[response.id].state = ON_MISSION
    /\ ExistingItems(response.itemIds)
    /\ Aboard(response.id, response.itemIds) = <<>>
    /\ ~Overweight(response.id, response.itemIds)
    /\ response.error = InvalidTransition(ON_MISSION, LOADING, "load")

\* the MISSION_ENDED entries of mover m
MissionsLogged(m) ==
    {i \in 1..Len(log) : log[i].moverId = m /\ log[i].activityType = ActMISSION_ENDED}

EntryType(op) ==
    CASE op = "loadItems" -> ActLOADING
      [] op = "startMission" -> ActMISSION_STARTED
      [] op = "endMission" -> ActMISSION_ENDED
      [] op = "unloadItems" -> ActUNLOADING

\* C17: in a one-at-a-time run every successful loadItems, startMission,
\* endMission, unloadItems changes its mover and appends, at the end of the
\* log, exactly one entry for that mover of type LOADING, MISSION_STARTED,
\* MISSION_ENDED, UNLOADING respectively (with the states before and after);
\* every other step (failed operations included) leaves the log and the
\* stored movers as they were.  So a mover's entries are, in order, its
\* successful operations.
C17_LogMatchesOperations ==
    [][ IF response'.op \in MutatingOps /\ response'.status = 200
        THEN LET m == response'.id
             IN  /\ m \in Stored
                 /\ movers'[m] # movers[m]
                 /\ \A o \in Stored \ {m} : movers'[o] = movers[o]
                 /\ Len(log') = Len(log) + 1
                 /\ SubSeq(log', 1, Len(log)) = log
                 /\ log'[Len(log')].moverId = m
                 /\ log'[Len(log')].activityType = EntryType(response'.op)
                 /\ log'[Len(log')].previousState = movers[m].state
                 /\ log'[Len(log')].newState = movers'[m].state
        ELSE /\ log' = log
             /\ \A o \in Stored : movers'[o] = movers[o] ]_vars

\* C17 witness: a mover's log reads LOADING, UNLOADING, LOADING after a
\* load, an unload and a load, and its last request, which failed, added
\* nothing.
C17_Witness ==
    /\ response.op \in MutatingOps /\ response.status >= 400
    /\ response.id \in Stored
    /\ Len(log) = 3
    /\ \A i \in 1..3 : log[i].moverId = response.id
    /\ log[1].activityType = ActLOADING
    /\ log[2].activityType = ActUNLOADING
    /\ log[3].activityType = ActLOADING
    /\ movers[response.id].state = LOADING

\* C18: when the log append of an operation fails after its mover write,
\* the write stays: the stored mover has the operation's new state, items,
\* currentWeight and completedMissions (no entry is logged, the caller
\* gets an error), and nothing puts the old values back.
C18_CommittedDespiteLogFailure ==
    [][ response'.error = LogAppendFailed =>
          LET m == response'.id
              op == response'.op
              itemIds == response'.itemIds
          IN  /\ m \in Stored
              /\ log' = log
              /\ response'.status = 500
              /\ movers'[m] # movers[m]
              /\ movers'[m] =
                    CASE op = "loadItems" ->
                           [movers[m] EXCEPT
                              !.state = LOADING,
                              !.items = @ \o itemIds,
                              !.currentWeight = @ + SumWeights(itemReg, itemIds)]
                      [] op = "startMission" ->
                           [movers[m] EXCEPT !.state = ON_MISSION]
                      [] op = "endMission" ->
                           [movers[m] EXCEPT
                              !.state = RESTING, !.items = <<>>,
                              !.currentWeight = 0,
                              !.completedMissions = @ + 1]
                      [] op = "unloadItems" ->
                           [movers[m] EXCEPT
                              !.state = RESTING, !.items = <<>>,
                              !.currentWeight = 0] ]_vars

\* C18 witness: the append of an endMission has failed; the mover rests,
\* empty, with one mission more than the log has MISSION_ENDED entries.
C18_Witness ==
    /\ response.op = "endMission"
    /\ response.error = LogAppendFailed
    /\ response.id \in Stored
    /\ movers[response.id].state = RESTING
    /\ movers[response.id].items = <<>>
    /\ movers[response.id].currentWeight = 0
    /\ movers[response.id].completedMissions =
           Cardinality(MissionsLogged(response.id)) + 1

\* C18 second witness: a load whose append failed stayed committed, and the
\* mission was then started from it: the log has the MISSION_STARTED entry
\* and no LOADING entry.
C18_WitnessCarriedOn ==
    /\ response.op = "startMission" /\ response.status = 200
    /\ movers[response.id].state = ON_MISSION
    /\ movers[response.id].items # <<>>
    /\ \A i \in 1..Len(log) : log[i].activityType # ActLOADING

\* C19: endMission on a stored mover that is not ON_MISSION is refused with
\* HTTP 400 and the message 'must be on mission' (not the
\* invalid-transition message), and mover and log stay as they were.
C19_MustBeOnMissionIs400 ==
    [][ \A m \in Stored :
          (movers[m].state # ON_MISSION /\ endMission(m)) =>
              /\ response'.error = MustBeOnMission
              /\ response'.error.kind # "Invalid state transition"
              /\ response'.status = 400
              /\ UNCHANGED <<movers, log>> ]_vars

\* a request of a mutating operation on id reaches the service (the
\* controller answers an empty load list itself, before calling loadItems)
ServiceCall(id) ==
    \/ \E itemIds \in LoadRequests : itemIds # <<>> /\ loadItems(id, itemIds)
    \/ startMission(id)
    \/ endMission(id)
    \/ unloadItems(id)

\* C20: loadItems, startMission, endMission and unloadItems called with an
\* id no stored mover has fail with 'Magic Mover not found' (HTTP 404),
\* store no mover, change no mover and append no log entry.
C20_UnknownMoverNotFound ==
    [][ \A id \in MoverIds \ Stored :
          ServiceCall(id) =>
              /\ response'.error = MoverNotFound
              /\ response'.status = 404
              /\ UNCHANGED <<movers, log>> ]_vars

\* C20 witness: with a mover stored and on a mission, an endMission for an
\* id that no mover has was answered 404.
C20_Witness ==
    /\ response.op = "endMission"
    /\ response.id \notin Stored
    /\ response.error = MoverNotFound
    /\ response.status = 404
    /\ \E m \in Stored : movers[m].state = ON_MISSION

\* the requested ids that no stored item has, in request order
AbsentIds(itemIds) == Filter(itemIds, Range(itemIds) \ (1..Len(itemReg)))

\* C21: a load request (non-empty list) on a stored mover fails with the
\* items-not-found error exactly when a requested id is absent from the
\* item collection; the error then lists the absent requested ids and the
\* mover is left as it was.
C21_ItemsNotFoundIffAbsent ==
    [][ \A m \in Stored : \A itemIds \in LoadRequests :
          (itemIds # <<>> /\ loadItems(m, itemIds)) =>
              /\ (response'.error.kind = "Items not found")
                    <=> (AbsentIds(itemIds) # <<>>)
              /\ (response'.error.kind = "Items not found") =>
                    /\ response'.error.ids = AbsentIds(itemIds)
                    /\ UNCHANGED movers ]_vars

\* C30: no step modifies or removes a log entry: the log after a step is
\* the log before it, possibly with entries added at the end, so each
\* mover's entries keep their content and order.
C30_LogAppendOnly ==
    [][ /\ Len(log') >= Len(log)
        /\ SubSeq(log', 1, Len(log)) = log ]_vars

\* C30 witness: the log holds the entries of two movers, appended in turn.
C30_Witness ==
    /\ Len(log) = MaxLog
    /\ \E i, j \in 1..Len(log) : i < j /\ log[i].moverId # log[j].moverId
    /\ log[Len(log)].activityType = ActMISSION_ENDED

\* C22: the mover a successful createMover returns (the document it
\* stored), for every body the validation lets through, is RESTING with
\* currentWeight 0, items empty and completedMissions 0.
C22_CreatedRestingAndEmpty ==
    [][ (response'.op = "createMover" /\ response'.status = 201) =>
          LET created == movers'[response'.id]
          IN  /\ created.state = RESTING
              /\ created.currentWeight = 0
              /\ created.items = <<>>
              /\ created.completedMissions = 0 ]_vars

\* the body has no weightLimit, or one that is zero or negative
BadWeightLimit(body) ==
    IF "weightLimit" \in DOMAIN body THEN body.weightLimit <= 0 ELSE TRUE

\* C23: a createMover request whose weightLimit is missing, zero or
\* negative fails with a validation error (HTTP 400, naming weightLimit)
\* and stores no mover.
C23_BadWeightLimitRejected ==
    [][ \A body \in CreateMoverBodies :
          (BadWeightLimit(body) /\ postMagicMover(body)) =>
              /\ response'.error.kind = "Validation failed"
              /\ "weightLimit" \in Range(response'.error.ids)
              /\ response'.status = 400
              /\ UNCHANGED movers ]_vars

\* C23 witness: with a mover stored, a request with weightLimit exactly 0
\* has been refused.
C23_Witness ==
    /\ response.op = "createMover"
    /\ response.status = 400
    /\ response.body = [weightLimit |-> 0]
    /\ response.error.ids = <<"weightLimit">>
    /\ Len(movers) = 1

\* the body's weight is zero or negative, or its name is empty or only
\* whitespace
BadItem(body) ==
    \/ "weight" \in DOMAIN body /\ body.weight <= 0
    \/ "name" \in DOMAIN body /\ trim(body.name) = <<>>

\* C24: a createItem request whose weight is <= 0, or whose name is empty
\* or only whitespace, is rejected with HTTP 400 and stores no item.
C24_BadItemRejected400 ==
    [][ \A body \in CreateItemBodies :
          (BadItem(body) /\ postMagicItem(body)) =>
              /\ response'.status = 400
              /\ UNCHANGED itemReg ]_vars

\* the five rows of the transition table, written out
C25_Rows ==
    { <<"resting", "loading", "load">>,
      <<"loading", "loading", "load">>,
      <<"loading", "on-mission", "start_mission">>,
      <<"loading", "resting", "unload">>,
      <<"on-mission", "resting", "end_mission">> }

\* C25: canTransition(from, to, action) is true exactly for the five table
\* rows; validateTransition returns for those and throws, for every other
\* triple, the invalid-transition error naming from, to and action.
C25_ExactlyTheTable ==
    response.op = "validateTransition" =>
        LET row == <<response.from, response.to, response.action>>
        IN  /\ response.can <=> (row \in C25_Rows)
            /\ row \in C25_Rows => response.error = NoError
            /\ row \notin C25_Rows =>
                  /\ response.error.kind = "Invalid state transition"
                  /\ response.error.from = response.from
                  /\ response.error.to = response.to
                  /\ response.error.action = response.action

\* C25 witness: a triple with a legal pair of states and the wrong action
\* (loading -> resting by end_mission) has been refused.
C25_Witness ==
    /\ response.op = "validateTransition"
    /\ response.from = LOADING /\ response.to = RESTING
    /\ response.action = "end_mission"
    /\ ~response.can
    /\ response.error = InvalidTransition(LOADING, RESTING, "end_mission")

\* C26: GET /magic-movers/most-missions-completed without itemId answers
\* with every stored mover exactly once, in non-increasing order of
\* completedMissions.
C26_AllMoversByCompletedMissions ==
    (response.op = "getTopPerformers" /\ response.itemIds = <<>>) =>
        /\ response.status = 200
        /\ Range(response.data) \subseteq 1..Len(movers)
        /\ \A m \in 1..Len(movers) :
              Cardinality({i \in 1..Len(response.data) : response.data[i] = m}) = 1
        /\ \A i, j \in 1..Len(response.data) :
              i < j => movers[response.data[i]].completedMissions
                         >= movers[response.data[j]].completedMissions

\* C26 witness: the answer lists the mover created second before the mover
\* created first, because it has completed more missions.
C26_Witness ==
    /\ response.op = "getTopPerformers"
    /\ response.itemIds = <<>>
    /\ response.data = <<2, 1>>
    /\ movers[2].completedMissions > movers[1].completedMissions

\* the count of the claim: the mover's MISSION_ENDED entries created after
\* at least one of its LOADING entries that hold itemId, each counted once
MissionEndsAfterLoading(moverId, itemId) ==
    Cardinality({j \in 1..Len(log) :
                   /\ log[j].moverId = moverId
                   /\ log[j].activityType = ActMISSION_ENDED
                   /\ \E i \in loadingActivities(itemId) :
                         log[i].moverId = moverId /\ i < j})

\* C27: the count that ranks a mover for an item equals the number of the
\* mover's MISSION_ENDED entries created strictly after at least one of its
\* LOADING entries holding the item, each mission end counted once.
C27_CountIsMissionEndsAfterLoading ==
    response.op = "getTopPerformers" =>
        \A itemId \in Range(response.itemIds) : \A m \in Range(response.data) :
            missionCount(m, itemId) = MissionEndsAfterLoading(m, itemId)

\* C28: a query for an item never answers with a mover whose count for that
\* item is zero.
C28_NoZeroCountMover ==
    response.op = "getTopPerformers" =>
        \A itemId \in Range(response.itemIds) : \A m \in Range(response.data) :
            /\ missionCount(m, itemId) > 0
            /\ MissionEndsAfterLoading(m, itemId) > 0

\* C29: a query for an item answers only with movers that have a LOADING
\* entry holding the item, each at most once, in non-increasing order of the
\* number of missions each completed after loading the item; movers that
\* completed a mission after loading the item are all in the answer.
C29_LoadersByMissionCount ==
    response.op = "getTopPerformers" =>
        \A itemId \in Range(response.itemIds) :
            /\ \A m \in Range(response.data) :
                  \E i \in loadingActivities(itemId) : log[i].moverId = m
            /\ NoDuplicates(response.data)
            /\ \A i, j \in 1..Len(response.data) :
                  i < j => MissionEndsAfterLoading(response.data[i], itemId)
                             >= MissionEndsAfterLoading(response.data[j], itemId)
            /\ \A m \in 1..Len(movers) :
                  MissionEndsAfterLoading(m, itemId) > 0 => m \in Range(response.data)

\* C31: a successful loadItems found the mover RESTING or LOADING and
\* leaves it with the requested ids appended to items in request order,
\* currentWeight increased by the sum of the requested items' weights and
\* state LOADING; weightLimit, name and completedMissions are as they were.
C31_LoadEffect ==
    [][ (response'.op = "loadItems" /\ response'.status = 200) =>
          LET m == response'.id
              itemIds == response'.itemIds
          IN  /\ m \in Stored
              /\ loadItems(m, itemIds)
              /\ movers[m].state \in {RESTING, LOADING}
              /\ movers'[m] = [movers[m] EXCEPT
                                 !.items = @ \o itemIds,
                                 !.currentWeight = @ + SumWeights(itemReg, itemIds),
                                 !.state = LOADING]
              /\ movers'[m].weightLimit = movers[m].weightLimit
              /\ movers'[m].name = movers[m].name
              /\ movers'[m].completedMissions = movers[m].completedMissions ]_vars

\* C31 witness: a LOADING mover that carried one item has just loaded
\* another: the new id is last in items and the weight is that of both.
C31_Witness ==
    /\ response.op = "loadItems" /\ response.status = 200
    /\ Len(response.itemIds) = 1
    /\ movers[response.id].state = LOADING
    /\ Len(movers[response.id].items) = 2
    /\ movers[response.id].items[2] = response.itemIds[1]
    /\ movers[response.id].items[1] # response.itemIds[1]
    /\ movers[response.id].currentWeight =
           SumWeights(itemReg, movers[response.id].items)
    /\ Len(log) >= 2
    /\ log[Len(log)].activityType = ActLOADING
    /\ log[Len(log)].previousState = LOADING

\* C32: on a RESTING or LOADING mover a load request of existing items none
\* of which is aboard is refused for capacity exactly when currentWeight
\* plus the items' weight exceeds weightLimit; otherwise it succeeds, also
\* when it brings currentWeight exactly to weightLimit.
C32_CapacityBoundary ==
    [][ response'.op = "loadItems" =>
          LET m == response'.id
              itemIds == response'.itemIds
          IN  ( /\ m \in Stored
                /\ movers[m].state \in {RESTING, LOADING}
                /\ ExistingItems(itemIds)
                /\ Aboard(m, itemIds) = <<>>
                /\ loadItems(m, itemIds) ) =>
                  /\ response'.error = WeightLimitExceeded <=> Overweight(m, itemIds)
                  /\ Overweight(m, itemIds) =>
                        response'.status = 400 /\ UNCHANGED <<movers, log>>
                  /\ ~Overweight(m, itemIds) =>
                        /\ response'.status = 200
                        /\ movers'[m].currentWeight =
                              movers[m].currentWeight + SumWeights(itemReg, itemIds)
                        /\ movers'[m].currentWeight <= movers[m].weightLimit ]_vars

\* C32 witness: a load has just succeeded that filled the mover exactly to
\* its weightLimit.
C32_Witness ==
    /\ response.op = "loadItems" /\ response.status = 200
    /\ ExistingItems(response.itemIds)
    /\ movers[response.id].state = LOADING
    /\ movers[response.id].currentWeight = movers[response.id].weightLimit
    /\ log # <<>>
    /\ log[Len(log)].activityType = ActLOADING
    /\ log[Len(log)].moverId = response.id

\* C32 second witness: a LOADING mover with cargo has refused one more
\* stored item, not aboard, that would take it past its weightLimit.
C32_WitnessRefused ==
    /\ response.op = "loadItems"
    /\ response.error = WeightLimitExceeded
    /\ ExistingItems(response.itemIds)
    /\ movers[response.id].state = LOADING
    /\ movers[response.id].items # <<>>
    /\ Aboard(response.id, response.itemIds) = <<>>
    /\ movers[response.id].currentWeight + SumWeights(itemReg, response.itemIds)
          > movers[response.id].weightLimit

\* C33: startMission succeeds only on a mover whose state was LOADING, and
\* a successful startMission changes the state to ON_MISSION and nothing
\* else: items, currentWeight, weightLimit, name and completedMissions stay.
C33_StartMissionContract ==
    [][ response'.op = "startMission" =>
          LET m == response'.id
          IN  /\ response'.status = 200 =>
                    /\ m \in Stored
                    /\ startMission(m)
                    /\ movers[m].state = LOADING
                    /\ movers'[m] = [movers[m] EXCEPT !.state = ON_MISSION]
                    /\ movers'[m].items = movers[m].items
                    /\ movers'[m].currentWeight = movers[m].currentWeight
                    /\ movers'[m].weightLimit = movers[m].weightLimit
                    /\ movers'[m].completedMissions = movers[m].completedMissions
                    /\ \A other \in Stored \ {m} : movers'[other] = movers[other]
              /\ (m \in Stored /\ movers[m].state # LOADING) =>
                    /\ response'.status # 200
                    /\ UNCHANGED <<movers, log>> ]_vars

\* C33 witness: a mover carrying two items has just started its mission and
\* still carries both, at their weight.
C33_Witness ==
    /\ response.op = "startMission" /\ response.status = 200
    /\ movers[response.id].state = ON_MISSION
    /\ Len(movers[response.id].items) = 2
    /\ movers[response.id].currentWeight =
           SumWeights(itemReg, movers[response.id].items)
    /\ movers[response.id].currentWeight > 0
    /\ log # <<>>
    /\ log[Len(log)].activityType = ActMISSION_STARTED
    /\ log[Len(log)].previousState = LOADING

\* C34: the MISSION_ENDED entry a successful endMission appends records the
\* itemCount and totalWeight the mover had before its cargo was cleared and
\* the completedMissions value after the increment; the MISSION_STARTED
\* entry a successful startMission appends records the itemCount and
\* currentWeight the mover carries into the mission.
C34_MissionEntriesSnapshot ==
    [][ (response'.op \in {"startMission", "endMission"} /\ response'.status = 200) =>
          LET m == response'.id
              e == log'[Len(log')]
          IN  /\ log' = Append(log, e)
              /\ e.moverId = m
              /\ e.itemCount = Len(movers[m].items)
              /\ e.totalWeight = movers[m].currentWeight
              /\ response'.op = "endMission" =>
                    /\ e.activityType = ActMISSION_ENDED
                    /\ movers'[m].items = <<>> /\ movers'[m].currentWeight = 0
                    /\ e.completedMissions = movers[m].completedMissions + 1
                    /\ e.completedMissions = movers'[m].completedMissions
              /\ response'.op = "startMission" =>
                    /\ e.activityType = ActMISSION_STARTED
                    /\ e.itemCount = Len(movers'[m].items)
                    /\ e.totalWeight = movers'[m].currentWeight ]_vars

\* C34 witness: the log ends with the MISSION_STARTED and MISSION_ENDED
\* entries of one mission of two items; both record the two items and
\* their weight, the second the first completed mission, and the mover is
\* empty again.
C34_Witness ==
    /\ response.op = "endMission" /\ response.status = 200
    /\ Len(log) >= 2
    /\ LET started == log[Len(log) - 1]
           ended == log[Len(log)]
       IN  /\ started.activityType = ActMISSION_STARTED
           /\ ended.activityType = ActMISSION_ENDED
           /\ started.moverId = response.id /\ ended.moverId = response.id
           /\ started.itemCount = 2 /\ ended.itemCount = 2
           /\ ended.totalWeight = started.totalWeight
           /\ ended.totalWeight >= 2
           /\ ended.completedMissions = 1
    /\ movers[response.id].items = <<>>
    /\ movers[response.id].currentWeight = 0

\* C35: a load request with an empty itemIds list is answered 400 and
\* changes nothing: the mover does not move to LOADING, its cargo stays and
\* no log entry is appended.
C35_EmptyLoadRejected ==
    [][ (response'.op = "loadItems" /\ response'.itemIds = <<>>) =>
          /\ response'.status = 400
          /\ response'.error = Err("itemIds must be a non-empty array")
          /\ UNCHANGED <<movers, log>> ]_vars

\* C35 witness: a stored RESTING mover with nothing aboard has just been
\* sent an empty list: it is answered 400 and rests, and no entry of the
\* log is a load of nothing.
C35_Witness ==
    /\ response.op = "loadItems" /\ response.itemIds = <<>>
    /\ response.status = 400
    /\ response.id \in Stored
    /\ movers[response.id].state = RESTING
    /\ movers[response.id].items = <<>>
    /\ \A i \in 1..Len(log) :
          log[i].activityType = ActLOADING => log[i].itemIds # <<>>

\* C36: whenever loadItems, startMission, endMission or unloadItems answers
\* its caller with an error, whatever the cause (a failed log append
\* included), the stored movers are exactly as they were before the call.
C36_ErrorLeavesMoverUntouched ==
    [][ (response'.op \in MutatingOps /\ response'.error # NoError) =>
          UNCHANGED movers ]_vars

Stale(p) ==
    /\ procs[p].pc = "save"
    /\ procs[p].orig # movers[procs[p].id]

\* C4: a write by an operation that read the mover before another
\* operation's write and saves after it is rejected with the
\* concurrent-modification error and changes nothing.
C4_StaleWriteRejected ==
    [][ \A p \in Procs :
          (Stale(p) /\ procs'[p].pc # "save")
            => /\ procs'[p].error = ConcurrentModification
               /\ movers' = movers ]_vars

\* only loadItems requests have written so far
OnlyLoadsWrote ==
    /\ \A i \in 1..Len(log) : log[i].activityType = ActLOADING
    /\ \A p \in Procs : procs[p].pc # "idle" => procs[p].op = "loadItems"

\* C5: however concurrent loadItems calls on a mover interleave, the stored
\* mover keeps currentWeight = sum of its items' weights, currentWeight <=
\* weightLimit and no duplicate item ids.
C5_ConcurrentLoadsKeepInvariants ==
    OnlyLoadsWrote =>
        \A m \in Stored :
            /\ movers[m].currentWeight = SumWeights(itemReg, movers[m].items)
            /\ movers[m].currentWeight <= movers[m].weightLimit
            /\ NoDuplicates(movers[m].items)

\* two endMission requests on one mover that both read it ON_MISSION in the
\* repository (so before either saved) and have both finished
EndMissionRace(p, q) ==
    /\ p # q
    /\ procs[p].op = "endMission" /\ procs[q].op = "endMission"
    /\ procs[p].id = procs[q].id
    /\ procs[p].pc = "done" /\ procs[q].pc = "done"
    /\ procs[p].orig.state = ON_MISSION
    /\ procs[p].orig = procs[q].orig

MissionEndedEntries(m, n) ==
    {i \in 1..Len(log) : /\ log[i].moverId = m
                         /\ log[i].activityType = ActMISSION_ENDED
                         /\ log[i].completedMissions = n}

\* C6: of two endMission calls that both read the ON_MISSION mover before
\* either writes, exactly one succeeds and the other fails with the
\* concurrent-modification error; completedMissions goes up by one and one
\* MISSION_ENDED entry is logged.
C6_OneEndMissionWins ==
    \A p, q \in Procs :
        EndMissionRace(p, q) =>
            /\ \/ procs[p].error = NoError /\ procs[q].error = ConcurrentModification
               \/ procs[q].error = NoError /\ procs[p].error = ConcurrentModification
            /\ Cardinality(MissionEndedEntries(procs[p].id,
                              procs[p].orig.completedMissions + 1)) = 1

\* the step is the save of an endMission on mover m
EndMissionCommit(m) ==
    \E p \in Procs :
        /\ procs[p].pc = "save" /\ procs[p].op = "endMission" /\ procs[p].id = m
        /\ procs'[p].pc = "log"

\* C7: between the commit of startMission and the commit of the following
\* endMission a mover's items and currentWeight do not change, however the
\* requests interleave.
C7_CargoFixedOnMission ==
    [][ \A m \in Stored :
          (movers[m].state = ON_MISSION /\ ~EndMissionCommit(m))
            => /\ movers'[m].items = movers[m].items
               /\ movers'[m].currentWeight = movers[m].currentWeight ]_vars

\* a startMission and an unloadItems on one mover that both read it LOADING
\* in the repository, the same document, and have both saved
StartUnloadBothCommitted ==
    \E p, q \in Procs :
        /\ procs[p].op = "startMission" /\ procs[q].op = "unloadItems"
        /\ procs[p].id = procs[q].id
        /\ procs[p].orig = procs[q].orig
        /\ procs[p].pc \in {"log", "done"} /\ procs[q].pc \in {"log", "done"}
        /\ procs[p].error = NoError /\ procs[q].error = NoError

\* C8: of a startMission and an unloadItems issued concurrently on a LOADING
\* mover at most one commits; no mover is left ON_MISSION with empty cargo
\* and none goes from RESTING to ON_MISSION.
C8_StartXorUnload ==
    [][ /\ ~StartUnloadBothCommitted'
        /\ \A m \in Stored :
             /\ movers'[m].state = ON_MISSION => movers'[m].items # <<>>
             /\ ~(movers[m].state = RESTING /\ movers'[m].state = ON_MISSION) ]_vars

\* the step is the committed write (save) of the request in slot p
Commits(p) == procs[p].pc = "save" /\ procs'[p].pc = "log"

\* the step is the log append of the request in slot p
Appends(p) == procs[p].pc = "log" /\ procs'[p].pc = "done"

\* C38: however requests on a mover interleave, the entry logged for a
\* committed write records as previousState and newState the mover's stored
\* state immediately before and immediately after that write.
C38_EntryStatesMatchWrite ==
    [][ \A p \in Procs :
          /\ Commits(p) =>
                /\ LogEntry(procs'[p]).previousState = movers[procs[p].id].state
                /\ LogEntry(procs'[p]).newState = movers'[procs[p].id].state
          /\ Appends(p) => log' = Append(log, LogEntry(procs[p])) ]_vars

RECURSIVE LoggedCargo(_, _)
\* the ids of mover m's LOADING entries among the first n entries of the
\* log, in the order the entries were appended
LoggedCargo(m, n) ==
    IF n = 0 THEN <<>>
    ELSE IF log[n].moverId = m /\ log[n].activityType = ActLOADING
         THEN LoggedCargo(m, n - 1) \o log[n].itemIds
         ELSE LoggedCargo(m, n - 1)

\* every committed write has its entry in the log
AllAppended == \A p \in Procs : procs[p].pc \notin {"log"}

\* C39: however requests on a mover interleave, their entries are appended
\* in the order their writes were committed.  Stated on loads, where the
\* order of the commits can be read off the mover: each committed load
\* pushes its ids at the end of items, so once every write has its entry
\* the ids of the mover's LOADING entries, in log order, read as items does.
C39_LogOrderIsCommitOrder ==
    (OnlyLoadsWrote /\ AllAppended) =>
        \A m \in Stored : LoggedCargo(m, Len(log)) = movers[m].items

====
